---- MODULE Spec2Model ----
(***************************************************************************)
(* The three C programs of the repository that decode a two-state HMM with *)
(* the Viterbi algorithm in log space:                                     *)
(*   "viterbi"          C_implementation/viterbi.c (Poisson emissions)     *)
(*   "poisson_sampling" C_implementation/poisson_sampling/viterbi.c        *)
(*   "durbin"           C_implementation/durbin_example/viterbi_durbin.c   *)
(* Each run is one invocation without the optional state file.  A double   *)
(* is a record: a finite value in millionths, +infinity or a NaN (the       *)
(* programs produce no -infinity).  n is the number of entries of the      *)
(* sequence file, as viterbi.c's usage asks of its first argument.         *)
(***************************************************************************)
EXTENDS Integers, Sequences, FiniteSets, TLC

VARIABLES variant, fileOK, file, seq, n, pc, vprob, ptr, pi, path, indet,
          row0, row1, i, j, out, reported, oob, writes

vars == <<variant, fileOK, file, seq, n, pc, vprob, ptr, pi, path, indet,
          row0, row1, i, j, out, reported, oob, writes>>

\* Longest enumerated sequence file.
MaxLen == 3

Variants == {"viterbi", "poisson_sampling", "durbin"}

\* Entries of a Poisson sequence file: small counts, and counts whose
\* factorial no longer fits the int factk of poisson().
Counts == {0, 3, 17, 34}

\* Entries (die faces) of a Durbin sequence file.
Faces == {1, 3, 6}

\* The die-roll sequence 1,1,1,1,1,6,6,6,1,1.
CasinoSeq == <<1, 1, 1, 1, 1, 6, 6, 6, 1, 1>>

RECURSIVE SeqsOfLen(_, _)
SeqsOfLen(S, len) ==
    IF len = 0 THEN {<<>>}
    ELSE {Append(s, x) : s \in SeqsOfLen(S, len - 1), x \in S}

SeqsUpTo(S, len) == UNION {SeqsOfLen(S, l) : l \in 1..len}

Inputs(v) ==
    IF v = "durbin" THEN SeqsUpTo(Faces, MaxLen) \cup {CasinoSeq}
    ELSE SeqsUpTo(Counts, MaxLen)

(***************************************************************************)
(* double and int arithmetic                                               *)
(***************************************************************************)
Micro == 10^6

IntMax == 2147483647
IntMin == -IntMax - 1

Fin(x) == [t |-> "fin", v |-> x]
PInf == [t |-> "pinf", v |-> 0]
NaN == [t |-> "nan", v |-> 0]

\* x + y on doubles.
FAdd(x, y) ==
    IF x.t = "nan" \/ y.t = "nan" THEN NaN
    ELSE IF x.t = "fin" /\ y.t = "fin" THEN Fin(x.v + y.v)
    ELSE PInf

\* x > y on doubles: false as soon as one side is a NaN.
FGt(x, y) ==
    IF x.t = "nan" \/ y.t = "nan" THEN FALSE
    ELSE IF x.t = "pinf" THEN y.t # "pinf"
    ELSE IF y.t = "pinf" THEN FALSE
    ELSE x.v > y.v

\* The conversion of a double to int: a finite value is truncated toward
\* zero; the conversion of a NaN or an infinity is undefined, and yields
\* INT_MIN on x86 and a saturated value or 0 elsewhere.
DoubleToInt(x) ==
    IF x.t = "fin"
    THEN {IF x.v >= 0 THEN x.v \div Micro ELSE -((-x.v) \div Micro)}
    ELSE IF x.t = "nan" THEN {IntMin, 0}
    ELSE {IntMin, IntMax}

\* x++ on an int (two's complement wrap).
Inc32(x) == IF x = IntMax THEN IntMin ELSE x + 1

\* An int is kept as two 16-bit limbs <<high, low>>, so that the products
\* below stay within 32 bits.
Limbs == (0..65535) \X (0..65535)

\* x * y modulo 2^16 and the carry x * y \div 2^16, for x, y < 2^16.
MulLo16(x, y) == ((((x \div 256) * y) % 256) * 256 + (x % 256) * y) % 65536
MulHi16(x, y) ==
    ((x \div 256) * y) \div 256
        + ((((x \div 256) * y) % 256) * 256 + (x % 256) * y) \div 65536

\* x * y on ints: the product modulo 2^32.
Mul32[x \in Limbs, y \in Limbs] ==
    <<(MulLo16(x[1], y[2]) + MulLo16(x[2], y[1]) + MulHi16(x[2], y[2])) % 65536,
      MulLo16(x[2], y[2])>>

Sign32(x) == IF x[1] >= 32768 THEN -1 ELSE IF x = <<0, 0>> THEN 0 ELSE 1

(***************************************************************************)
(* max, argmax, poisson                                                    *)
(***************************************************************************)
max(v, a, b) ==
    IF FGt(a, b) THEN a
    ELSE IF v # "durbin" /\ FGt(b, a) THEN b
    ELSE b

\* argmax with its first comparison turned around.
argmaxFlipped(v, r0, r1) ==
    IF FGt(r1, r0) THEN {0}
    ELSE {1}

\* The values argmax can return: one value, except where the Poisson
\* programs convert a NaN or an infinity to int.
argmax(v, r0, r1) ==
    IF FGt(r0, r1) THEN {0}
    ELSE IF v = "durbin" THEN {1}
    ELSE IF FGt(r1, r0) THEN {1}
    ELSE DoubleToInt(r1)

\* The largest entry of Counts.
MaxCount == 34

\* lo * (lo + 1) * ... * hi modulo 2^32.
Prod[lo \in 1..MaxCount, hi \in 1..MaxCount] ==
    IF lo = hi THEN <<0, lo>>
    ELSE Mul32[Prod[lo, (lo + hi) \div 2], Prod[(lo + hi) \div 2 + 1, hi]]

\* int factk of poisson(k, lambda): 1 for k = 0, else k * (k - 1) * ... * 1,
\* which wraps modulo 2^32.
FactK(k) == IF k = 0 THEN <<0, 1>> ELSE Prod[1, k]

\* ln(m) in millionths, for the factorials that fit an int here.
LnMicro(m) ==
    CASE m = 1 -> 0
      [] m = 2 -> 693147
      [] m = 6 -> 1791759
      [] m = 24 -> 3178054

\* e[2] of the Poisson programs: each lambda with its logarithm.
lambda == <<[val |-> 1823400, ln |-> 600703], [val |-> 5781200, ln |-> 1754611]>>

\* factk for each count, and log(poisson(k, lambda)): pow(lambda, k) * exp(-lambda) is positive, so
\* the quotient by factk is positive, +infinity (factk = 0) or negative.
FactTable == [k \in 0..MaxCount |-> FactK(k)]

LogPoisson(k, l) ==
    LET f == FactTable[k]
    IN  IF Sign32(f) = 0 THEN PInf
        ELSE IF Sign32(f) < 0 THEN NaN
        ELSE Fin(k * l.ln - l.val - LnMicro(f[1] * 65536 + f[2]))

\* a[2][2], in log space.
a(v) ==
    IF v = "durbin"
    THEN << <<-51293, -2995732>>, <<-2302585, -105361>> >>
    ELSE << <<-45939, -3103317>>, <<-2430418, -92115>> >>

\* e[6][2] of the Durbin program, in log space.
eDurbin ==
    << <<-1791759, -2302585>>, <<-1791759, -2302585>>, <<-1791759, -2302585>>,
       <<-1791759, -2302585>>, <<-1791759, -2302585>>, <<-1791759, -693147>> >>

\* The emission term with the Durbin program's index in every variant.
EmissionSameIndex(v, s, ii, jj) ==
    IF v = "durbin" THEN Fin(eDurbin[s[ii + 1] + 1][jj + 1])
    ELSE LogPoisson(s[ii + 1], lambda[jj + 1])

\* The emission term of vprob[jj][ii].
Emission(v, s, ii, jj) ==
    IF v = "durbin" THEN Fin(eDurbin[s[ii + 1] + 1][jj + 1])
    ELSE LogPoisson(s[ii], lambda[jj + 1])

(***************************************************************************)
(* memory                                                                  *)
(***************************************************************************)
Put(T, r, c, x) == [T EXCEPT ![r][c] = x]

Table(len, zero) == [r \in 0..1 |-> [c \in 0..(len - 1) |-> zero]]

\* What malloc leaves in a double or an int.
GarbageD == {Fin(0), Fin(-3 * Micro), Fin(2 * Micro)}
GarbageI == {0, 1, 7}

\* The values a read of cell c of table T (named nm) can give.
ReadD(nm, T, r, c) ==
    IF c \notin 0..(n - 1) \/ <<nm, r, c>> \in indet THEN GarbageD ELSE {T[r][c]}

ReadPath(c) ==
    IF c \notin 0..(n - 1) \/ <<"path", 0, c>> \in indet THEN GarbageI ELSE {path[c]}

AllCells(len) ==
    ({"vprob", "ptr", "pi"} \X (0..1) \X (0..(len - 1)))
        \cup ({"path"} \X {0} \X (0..(len - 1)))

(***************************************************************************)
(* the program                                                             *)
(***************************************************************************)
Init ==
    /\ variant \in Variants
    /\ fileOK \in BOOLEAN
    /\ file \in (IF fileOK THEN Inputs(variant) ELSE {<<>>})
    /\ seq = <<>>
    /\ n = 0
    /\ pc = "start"
    /\ vprob = <<>> /\ ptr = <<>> /\ pi = <<>> /\ path = <<>>
    /\ indet = {}
    /\ row0 = Fin(0) /\ row1 = Fin(0)
    /\ i = 0 /\ j = 0
    /\ out = <<>>
    /\ reported = FALSE
    /\ oob = FALSE
    /\ writes = <<>>

\* fopen fails: the Poisson programs return 1; the Durbin main ignores
\* what read_sequencefile returns and goes on with sequence_length = 0.
OpenFail ==
    /\ pc = "start" /\ ~fileOK
    /\ reported' = TRUE
    /\ pc' = IF variant = "durbin" THEN "alloc" ELSE "exit"
    /\ UNCHANGED <<variant, fileOK, file, seq, n, vprob, ptr, pi, path, indet,
                   row0, row1, i, j, out, oob, writes>>

ReadSequence ==
    /\ pc = "start" /\ fileOK
    /\ seq' = IF variant = "durbin"
              THEN [k \in 1..Len(file) |-> file[k] - 1]
              ELSE file
    /\ n' = Len(file)
    /\ pc' = "alloc"
    /\ UNCHANGED <<variant, fileOK, file, vprob, ptr, pi, path, indet,
                   row0, row1, i, j, out, reported, oob, writes>>

\* malloc(0) may return NULL: run_viterbi then reports and returns.
AllocFail ==
    /\ pc = "alloc" /\ variant = "durbin" /\ n = 0
    /\ pc' = "exit"
    /\ UNCHANGED <<variant, fileOK, file, seq, n, vprob, ptr, pi, path, indet,
                   row0, row1, i, j, out, reported, oob, writes>>

\* The outer arrays get n entries and are filled at indices 0 and 1.
Alloc ==
    /\ pc = "alloc"
    /\ vprob' = Table(n, Fin(0))
    /\ ptr' = Table(n, 0)
    /\ pi' = Table(n, Fin(0))
    /\ path' = [c \in 0..(n - 1) |-> 0]
    /\ writes' = Table(n, 0)
    /\ indet' = IF variant = "durbin" THEN AllCells(n) ELSE {}
    /\ oob' = (oob \/ \E r \in 0..1 : r >= n)
    /\ pc' = "init"
    /\ UNCHANGED <<variant, fileOK, file, seq, n, row0, row1, i, j, out, reported>>

InitColumn ==
    /\ pc = "init"
    /\ IF n >= 1
       THEN /\ vprob' = Put(Put(vprob, 0, 0, Fin(Micro)), 1, 0, Fin(0))
            /\ writes' = Put(Put(writes, 0, 0, writes[0][0] + 1), 1, 0, writes[1][0] + 1)
            /\ oob' = oob
       ELSE /\ UNCHANGED <<vprob, writes>>
            /\ oob' = TRUE
    /\ indet' = indet \ {<<"vprob", 0, 0>>, <<"vprob", 1, 0>>}
    /\ i' = 1 /\ j' = 0
    /\ pc' = "forward"
    /\ UNCHANGED <<variant, fileOK, file, seq, n, ptr, pi, path,
                   row0, row1, out, reported>>

ForwardCell ==
    /\ pc = "forward" /\ i < n
    /\ \E v0 \in ReadD("vprob", vprob, 0, i - 1), v1 \in ReadD("vprob", vprob, 1, i - 1) :
         LET r0 == FAdd(v0, Fin(a(variant)[1][j + 1]))
             r1 == FAdd(v1, Fin(a(variant)[2][j + 1]))
         IN  /\ row0' = r0
             /\ row1' = r1
             /\ vprob' = Put(vprob, j, i, FAdd(Emission(variant, seq, i, j), max(variant, r0, r1)))
             /\ \E am \in argmax(variant, r0, r1) : ptr' = Put(ptr, j, i, am)
             /\ pi' = Put(pi, j, i, max(variant, r0, r1))
    /\ writes' = Put(writes, j, i, writes[j][i] + 1)
    /\ indet' = indet \ {<<"vprob", j, i>>, <<"ptr", j, i>>, <<"pi", j, i>>}
    /\ i' = IF j = 1 THEN i + 1 ELSE i
    /\ j' = IF j = 1 THEN 0 ELSE 1
    /\ UNCHANGED <<variant, fileOK, file, seq, n, pc, path, out, reported, oob>>

\* The loop ends; the sequence is freed.
ForwardDone ==
    /\ pc = "forward" /\ i >= n
    /\ seq' = <<>>
    /\ pc' = "tracestart"
    /\ UNCHANGED <<variant, fileOK, file, n, vprob, ptr, pi, path, indet,
                   row0, row1, i, j, out, reported, oob, writes>>

\* path[n - 1] = argmax(pi[0][n - 1], pi[1][n - 1])
TraceStart ==
    /\ pc = "tracestart"
    /\ \E p0 \in ReadD("pi", pi, 0, n - 1), p1 \in ReadD("pi", pi, 1, n - 1) :
         \E am \in argmax(variant, p0, p1) :
            IF n >= 1
            THEN /\ pi' = Put(Put(pi, 0, n - 1, p0), 1, n - 1, p1)
                 /\ path' = [path EXCEPT ![n - 1] = am]
                 /\ oob' = oob
            ELSE /\ UNCHANGED <<pi, path>>
                 /\ oob' = TRUE
    /\ indet' = indet \ {<<"pi", 0, n - 1>>, <<"pi", 1, n - 1>>, <<"path", 0, n - 1>>}
    /\ i' = n - 2
    /\ pc' = "trace"
    /\ UNCHANGED <<variant, fileOK, file, seq, n, vprob, ptr, row0, row1, j,
                   out, reported, writes>>

\* path[i] = ptr[path[i + 1]][i + 1]
TraceStep ==
    /\ pc = "trace" /\ i > 0
    /\ IF path[i + 1] \in {0, 1}
       THEN /\ path' = [path EXCEPT ![i] = ptr[path[i + 1]][i + 1]]
            /\ oob' = oob
       ELSE /\ \E g \in GarbageI : path' = [path EXCEPT ![i] = g]
            /\ oob' = TRUE
    /\ indet' = indet \ {<<"path", 0, i>>}
    /\ i' = i - 1
    /\ UNCHANGED <<variant, fileOK, file, seq, n, pc, vprob, ptr, pi, row0, row1, j,
                   out, reported, writes>>

TraceDone ==
    /\ pc = "trace" /\ i <= 0
    /\ pc' = IF variant = "poisson_sampling" THEN "print" ELSE "free"
    /\ i' = 0
    /\ UNCHANGED <<variant, fileOK, file, seq, n, vprob, ptr, pi, path, indet,
                   row0, row1, j, out, reported, oob, writes>>

\* The tables are freed; the Durbin program then prints its header.
Free ==
    /\ pc = "free"
    /\ vprob' = <<>> /\ ptr' = <<>> /\ pi' = <<>>
    /\ indet' = {c \in indet : c[1] = "path"}
    /\ out' = IF variant = "durbin" THEN Append(out, "Viterbi output:\n") ELSE out
    /\ pc' = IF variant = "poisson_sampling" THEN "done" ELSE "print"
    /\ i' = 0
    /\ UNCHANGED <<variant, fileOK, file, seq, n, path, row0, row1, j,
                   reported, oob, writes>>

\* printf("%i") of an int known to be 1 or 2, or of another number.
Digits(x) == IF x = 1 THEN "1" ELSE IF x = 2 THEN "2" ELSE "#"

PrintStep ==
    /\ pc = "print" /\ i < n
    /\ IF variant = "durbin"
       THEN \E p \in ReadPath(i) :
              /\ path' = [path EXCEPT ![i] = p]
              /\ out' = (IF i % 60 = 0 /\ i # 0 THEN Append(out, "\n") ELSE out)
                          \o (IF p = 0 THEN <<"F">> ELSE <<>>)
                          \o (IF p = 1 THEN <<"L">> ELSE <<>>)
       ELSE /\ path' = [path EXCEPT ![i] = Inc32(path[i])]
            /\ out' = Append(out, Digits(Inc32(path[i])))
    /\ indet' = indet \ {<<"path", 0, i>>}
    /\ i' = i + 1
    /\ UNCHANGED <<variant, fileOK, file, seq, n, pc, vprob, ptr, pi, row0, row1, j,
                   reported, oob, writes>>

PrintDone ==
    /\ pc = "print" /\ i >= n
    /\ out' = Append(out, "\n")
    /\ pc' = IF variant = "poisson_sampling" THEN "free" ELSE "done"
    /\ UNCHANGED <<variant, fileOK, file, seq, n, vprob, ptr, pi, path, indet,
                   row0, row1, i, j, reported, oob, writes>>

\* After an access outside an allocation the process may be killed.
Crash ==
    /\ oob /\ pc \notin {"done", "exit", "crash"}
    /\ pc' = "crash"
    /\ UNCHANGED <<variant, fileOK, file, seq, n, vprob, ptr, pi, path, indet,
                   row0, row1, i, j, out, reported, oob, writes>>

Next ==
    \/ OpenFail
    \/ ReadSequence
    \/ AllocFail
    \/ Alloc
    \/ InitColumn
    \/ ForwardCell
    \/ ForwardDone
    \/ TraceStart
    \/ TraceStep
    \/ TraceDone
    \/ Free
    \/ PrintStep
    \/ PrintDone
    \/ Crash

Spec == Init /\ [][Next]_vars

(***************************************************************************)
(* the properties                                                          *)
(***************************************************************************)
\* Observation k (0-based) as the decoder stores it.
Obs(k) == IF variant = "durbin" THEN file[k + 1] - 1 ELSE file[k + 1]

\* The state symbols printed so far.
StateSymbols == {"1", "2", "F", "L"}
Symbols == SelectSeq(out, LAMBDA s : s \in StateSymbols)

\* The score, backpointer and pi tables are allocated and not yet freed.
TablesLive ==
    \/ pc \in {"init", "forward", "tracestart", "trace", "free"}
    \/ pc = "print" /\ variant = "poisson_sampling"

\* The forward pass has written cell [r][c].
CellWritten(r, c) ==
    /\ c \in 1..(n - 1)
    /\ \/ pc # "forward" /\ pc # "init"
       \/ pc = "forward" /\ (c < i \/ (c = i /\ r < j))

\* C1: a sequence of length 1 decodes to the one-element path <<0>>, printed
\* as the start state's symbol, in every variant.
C1_LengthOneIsStartState ==
    (fileOK /\ Len(file) = 1) =>
        /\ pc = "trace" => path[0] = 0
        /\ pc = "done" => Symbols = <<IF variant = "durbin" THEN "F" ELSE "1">>

\* C2: when the program is done, n state symbols have been printed and every
\* path element is a state, 0 or 1 (the Poisson print loop left each
\* element incremented by one).
C2_PathHoldsNStates ==
    (fileOK /\ pc = "done") =>
        /\ Len(Symbols) = n
        /\ \A c \in 0..(n - 1) :
              (IF variant = "durbin" THEN path[c] ELSE path[c] - 1) \in {0, 1}

\* C3 as stated: on 1,1,1,1,1,6,6,6,1,1 the Durbin path is state 0 at
\* positions 1..4 and state 1 at some position of 5..7.
C3_SwitchesOnSixes ==
    (variant = "durbin" /\ file = CasinoSeq /\ pc \in {"free", "print", "done"}) =>
        /\ \A c \in 1..4 : path[c] = 0
        /\ \E c \in 5..7 : path[c] = 1

\* C3 amended: on 1,1,1,1,1,6,6,6,1,1 the Durbin path is state 0 at
\* positions 1..4 and stays state 0 at every position 5..7 of the run of 6s.
C3_StaysFairOnThreeSixes ==
    (variant = "durbin" /\ file = CasinoSeq /\ pc \in {"free", "print", "done"}) =>
        /\ \A c \in 1..4 : path[c] = 0
        /\ \A c \in 5..7 : path[c] = 0

\* The casino sequence has been decoded and printed.
C3_Witness ==
    /\ variant = "durbin" /\ file = CasinoSeq /\ pc = "done"
    /\ \A c \in 1..7 : path[c] = 0

\* C4: once the sequence file error is reported, the program has printed
\* nothing and is at its exit (or, in the Durbin program, back in main just
\* before run_viterbi): no allocation, initialization, forward pass,
\* traceback or print follows the report.
C4_ErrorAborts == reported => (pc \in {"alloc", "exit"} /\ out = <<>>)

\* C5: while the tables are live, every cell vprob[r][c] the forward pass has
\* written equals the emission term (of observation c - 1 in the Poisson
\* programs, of observation c in the Durbin program) plus the larger of
\* vprob[0][c-1] + a[0][r] and vprob[1][c-1] + a[1][r], and has been written
\* exactly once; no other cell of columns 1..n-1 has been written.
C5_Recurrence ==
    (fileOK /\ TablesLive /\ pc # "init") =>
        \A r \in 0..1, c \in 1..(n - 1) :
            IF CellWritten(r, c)
            THEN LET s0 == FAdd(vprob[0][c - 1], Fin(a(variant)[1][r + 1]))
                     s1 == FAdd(vprob[1][c - 1], Fin(a(variant)[2][r + 1]))
                     em == IF variant = "durbin"
                           THEN Fin(eDurbin[Obs(c) + 1][r + 1])
                           ELSE LogPoisson(Obs(c - 1), lambda[r + 1])
                 IN  /\ vprob[r][c] = FAdd(em, IF FGt(s0, s1) THEN s0 ELSE s1)
                     /\ writes[r][c] = 1
            ELSE writes[r][c] = 0

\* A forward pass over three or more entries is complete, with a finite score.
C5_Witness ==
    /\ fileOK /\ pc = "trace" /\ n >= 3
    /\ \A r \in 0..1, c \in 1..(n - 1) : writes[r][c] = 1
    /\ \E r \in 0..1, c \in 1..(n - 1) : vprob[r][c].t = "fin"

\* C6: for n >= 2, the last path element is the state with the larger full
\* score vprob[.][n-1] (state 1 on a tie), and each earlier element down to
\* position 1 is the backpointer of its successor.  Stated for the runs whose
\* two final scores are finite numbers.
C6_FinalStateIsArgmaxV ==
    (/\ fileOK /\ n >= 2 /\ pc = "trace"
     /\ vprob[0][n - 1].t = "fin" /\ vprob[1][n - 1].t = "fin") =>
        /\ path[n - 1] = IF FGt(vprob[0][n - 1], vprob[1][n - 1]) THEN 0 ELSE 1
        /\ \A c \in 1..(n - 2) :
              c > i => (path[c + 1] \in {0, 1} /\ path[c] = ptr[path[c + 1]][c + 1])

\* C7: argmax gives 0 when its first argument is the larger and 1 otherwise,
\* ties included: so does the backpointer just stored from row0 and row1, and
\* so does the final state chosen from pi[0][n-1] and pi[1][n-1].
C7_ArgmaxTieIsOne ==
    /\ (fileOK /\ pc = "forward" /\ (i > 1 \/ j = 1)) =>
          ptr[IF j = 1 THEN 0 ELSE 1][IF j = 1 THEN i ELSE i - 1]
              = IF FGt(row0, row1) THEN 0 ELSE 1
    /\ (fileOK /\ pc = "trace" /\ i = n - 2) =>
          path[n - 1] = IF FGt(pi[0][n - 1], pi[1][n - 1]) THEN 0 ELSE 1

\* C8: every backpointer the forward pass has written is 0 or 1.
C8_BackpointersValid ==
    (fileOK /\ TablesLive /\ pc # "init") =>
        \A r \in 0..1, c \in 1..(n - 1) : CellWritten(r, c) => ptr[r][c] \in {0, 1}

\* C9: from the initialization on, vprob[0][0] = 0 and vprob[1][0] = 0.
C9_StartColumnIsZero ==
    (fileOK /\ TablesLive /\ pc # "init") =>
        (vprob[0][0] = Fin(0) /\ vprob[1][0] = Fin(0))

\* C10: for n >= 1 no access of path, vprob, ptr or pi falls outside the
\* elements allocated for the array.
C10_AccessesInBounds == (fileOK /\ Len(file) >= 1) => ~oob

====
